---- MODULE Spec2Model ----
(***************************************************************************)
(* A model of the Chat Assist service (natural language -> SQL):           *)
(*   sql_query_generator.py  SQLQueryGenerator.clean_sql_query and         *)
(*                           SQLQueryGenerator.generate_sql_query          *)
(*   main.py                 startup_event and process_query (POST /query) *)
(*   check_fyre.py           DB2Client                                     *)
(*   config.py               Config and Config.validate                    *)
(* A Python str is a sequence of one-character strings, and every str      *)
(* method the code calls (in, split, strip, lower, upper, startswith,      *)
(* join, replace, slicing) is an operator that computes what the method    *)
(* computes.                                                               *)
(***************************************************************************)
EXTENDS Integers, Sequences, FiniteSets, TLC

VARIABLES
    response,     \* what self.model.generate_text does: returns a text or raises
    pc,           \* position of the call under test
    cleaned,      \* outcome of clean_sql_query(response text)
    generated,    \* outcome of generate_sql_query
    natural_language_query,   \* argument of generate_sql_query
    user_context,             \* argument of generate_sql_query: a dict or None
    context_block,            \* local of generate_sql_query
    system_prompt,            \* local of generate_sql_query: the prompt sent
    calls,        \* the calls of generate_sql_query so far: arguments and prompt
    environ,      \* os.environ after load_dotenv()
    config,       \* the attributes of class Config, None before its import
    validated,    \* outcome of Config.validate(), None before it ran
    app,          \* the service: "import", "startup", "ready" or "failed"
    startup,      \* outcome of startup_event, None before it ran
    sql_generator,   \* main.py global: the SQLQueryGenerator, None before startup
    db_client,       \* main.py global: the DB2Client, None before startup
    request,      \* per POST /query: the QueryRequest, None before it arrives
    at,           \* per POST /query: where its handler stands
    frame,        \* the local variables of the invocations of process_query
    http,         \* per POST /query: the HTTP response, None before it is sent
    trace,        \* per POST /query: the stages its handler ran, in order
    ibm_db,       \* the driver: its connection handles and the calls made to it
    client_calls  \* the calls made to a DB2Client directly, with their outcomes

callVars == <<response, pc, cleaned, generated, natural_language_query,
              user_context, context_block, system_prompt, calls>>

configVars == <<environ, config, validated>>

serviceVars == <<app, startup, db_client, request, at, frame, http, trace>>

clientVars == <<ibm_db, client_calls>>

vars == <<callVars, configVars, sql_generator, serviceVars, clientVars>>

----------------------------------------------------------------------------
(* Python str primitives                                                   *)

NL == "\n"
SP == " "
\* The backquote character (a string literal of the language cannot hold it).
BQ == "BACKQUOTE"

\* str.strip() with no argument strips whitespace; of the characters used
\* here, the whitespace ones are the blank and the line feed.
Whitespace == {SP, NL}

UpperLetters == <<"A","B","C","D","E","F","G","H","I","J","K","L","M",
                  "N","O","P","Q","R","S","T","U","V","W","X","Y","Z">>
LowerLetters == <<"a","b","c","d","e","f","g","h","i","j","k","l","m",
                  "n","o","p","q","r","s","t","u","v","w","x","y","z">>

LowerChar(c) ==
    IF \E i \in 1..26 : UpperLetters[i] = c
    THEN LowerLetters[CHOOSE i \in 1..26 : UpperLetters[i] = c]
    ELSE c

UpperChar(c) ==
    IF \E i \in 1..26 : LowerLetters[i] = c
    THEN UpperLetters[CHOOSE i \in 1..26 : LowerLetters[i] = c]
    ELSE c

\* str.lower() and str.upper()
Lower(s) == [i \in 1..Len(s) |-> LowerChar(s[i])]
Upper(s) == [i \in 1..Len(s) |-> UpperChar(s[i])]

\* str.startswith(prefix)
StartsWith(s, prefix) ==
    /\ Len(prefix) <= Len(s)
    /\ SubSeq(s, 1, Len(prefix)) = prefix

\* str.startswith((p1, p2, ...)): true when s starts with any of them
StartsWithAny(s, prefixes) == \E p \in prefixes : StartsWith(s, p)

\* str.find(pat, from): the least index >= from at which pat occurs, 0 if none
RECURSIVE Find(_, _, _)
Find(s, pat, from) ==
    IF from + Len(pat) - 1 > Len(s) THEN 0
    ELSE IF SubSeq(s, from, from + Len(pat) - 1) = pat THEN from
    ELSE Find(s, pat, from + 1)

\* pat in s
Contains(s, pat) == Find(s, pat, 1) # 0

\* str.split(sep): the pieces between the non-overlapping occurrences of
\* sep, found left to right; always at least one piece.
RECURSIVE Split(_, _)
Split(s, sep) ==
    LET i == Find(s, sep, 1)
    IN  IF i = 0 THEN <<s>>
        ELSE <<SubSeq(s, 1, i - 1)>> \o Split(SubSeq(s, i + Len(sep), Len(s)), sep)

\* str.strip()
RECURSIVE LStrip(_)
LStrip(s) ==
    IF s # <<>> /\ Head(s) \in Whitespace THEN LStrip(Tail(s)) ELSE s

RECURSIVE RStrip(_)
RStrip(s) ==
    IF s # <<>> /\ s[Len(s)] \in Whitespace
    THEN RStrip(SubSeq(s, 1, Len(s) - 1))
    ELSE s

Strip(s) == RStrip(LStrip(s))

\* sep.join(parts)
RECURSIVE Join(_, _)
Join(parts, sep) ==
    IF parts = <<>> THEN <<>>
    ELSE IF Len(parts) = 1 THEN parts[1]
    ELSE parts[1] \o sep \o Join(Tail(parts), sep)

\* str.replace(old, new) for a one-character old
RECURSIVE ReplaceChar(_, _, _)
ReplaceChar(s, old, new) ==
    IF s = <<>> THEN <<>>
    ELSE (IF Head(s) = old THEN new ELSE <<Head(s)>>)
         \o ReplaceChar(Tail(s), old, new)

----------------------------------------------------------------------------
(* Literals of clean_sql_query                                             *)

FenceSql == <<BQ,BQ,BQ,"s","q","l">>
Fence == <<BQ,BQ,BQ>>
FillerPrefixes ==
    { <<"h","e","r","e">>,
      <<"t","h","e">>,
      <<"t","h","i","s">>,
      <<"n","o","t","e",":">>,
      <<"e","x","p","l","a","n","a","t","i","o","n",":">> }
SqlLabel == <<"s","q","l",":">>
SelectKeyword == <<"S","E","L","E","C","T">>

\* "Generated output is not a valid SELECT statement"
NotSelectMessage ==
    <<"G","e","n","e","r","a","t","e","d"," ","o","u","t","p","u","t"," ",
      "i","s"," ","n","o","t"," ","a"," ","v","a","l","i","d"," ",
      "S","E","L","E","C","T"," ","s","t","a","t","e","m","e","n","t">>

\* What a call yields: a returned str, or a raised exception with its
\* message (str(e)).
Returned(s) == [ok |-> TRUE, value |-> s]
Raised(type, message) == [ok |-> FALSE, type |-> type, message |-> message]

\* Mutant: the text after the opening marker is not cut at the closing fence.
FencedText_NoClosingFence(generated_text) ==
    IF Contains(generated_text, FenceSql)
    THEN Split(generated_text, FenceSql)[2]
    ELSE generated_text

\* Lines 502-503: the text the cleaner works on.
FencedText(generated_text) ==
    IF Contains(generated_text, FenceSql)
    THEN Split(Split(generated_text, FenceSql)[2], Fence)[1]
    ELSE generated_text

\* Mutant: the filler prefixes are compared without lower().
KeepLine_CaseSensitive(line) ==
    /\ line # <<>>
    /\ ~StartsWithAny(line, FillerPrefixes)

\* Lines 509-512: is the stripped line kept?
KeepLine(line) ==
    /\ line # <<>>
    /\ ~StartsWithAny(Lower(line), FillerPrefixes)

\* Mutant: the label is compared without lower().
StripLabel_CaseSensitive(line) ==
    IF StartsWith(line, SqlLabel)
    THEN Strip(SubSeq(line, 5, Len(line)))
    ELSE line

\* Lines 513-514: the label "sql:" is cut from a kept line.
StripLabel(line) ==
    IF StartsWith(Lower(line), SqlLabel)
    THEN Strip(SubSeq(line, 5, Len(line)))
    ELSE line

\* Lines 505-515: the loop that fills sql_lines.
RECURSIVE SqlLines(_)
SqlLines(lines) ==
    IF lines = <<>> THEN <<>>
    ELSE LET line == Strip(Head(lines))
         IN  (IF KeepLine(line) THEN <<StripLabel(line)>> ELSE <<>>)
             \o SqlLines(Tail(lines))

\* Mutant: the semicolons are not removed.
JoinedSql_KeepSemicolons(sql_lines) == Strip(Join(sql_lines, <<SP>>))

\* Line 517
JoinedSql(sql_lines) == Strip(ReplaceChar(Join(sql_lines, <<SP>>), ";", <<>>))

\* Mutant: the prefix is compared without upper().
IsSelect_CaseSensitive(sql_query) == StartsWith(sql_query, SelectKeyword)

\* Line 519
IsSelect(sql_query) == StartsWith(Upper(sql_query), SelectKeyword)

\* Mutant: the error message carries the rejected text.
clean_sql_query_MessageWithText(generated_text) ==
    LET lines == Split(Strip(FencedText(generated_text)), <<NL>>)
        sql_query == JoinedSql(SqlLines(lines))
    IN  IF ~IsSelect(sql_query)
        THEN Raised("ValueError", NotSelectMessage \o <<":", SP>> \o sql_query)
        ELSE Returned(sql_query)

\* clean_sql_query, lines 500-522
clean_sql_query(generated_text) ==
    LET lines == Split(Strip(FencedText(generated_text)), <<NL>>)
        sql_query == JoinedSql(SqlLines(lines))
    IN  IF ~IsSelect(sql_query)
        THEN Raised("ValueError", NotSelectMessage)
        ELSE Returned(sql_query)

\* "Failed to generate SQL query: "
FailedPrefix ==
    <<"F","a","i","l","e","d"," ","t","o"," ","g","e","n","e","r","a","t","e"," ","S","Q","L"," ","q","u","e","r","y",":"," ">>

\* Mutant: the response is returned without the call of clean_sql_query.
generate_sql_query_try_NoClean(resp) ==
    IF ~resp.ok
    THEN Raised("Exception", FailedPrefix \o resp.message)
    ELSE Returned(ReplaceChar(Strip(resp.value), NL, <<SP>>))

\* Lines 928-941: the try block of generate_sql_query, given what
\* self.model.generate_text did.
generate_sql_query_try(resp) ==
    IF ~resp.ok
    THEN Raised("Exception", FailedPrefix \o resp.message)
    ELSE LET sql == clean_sql_query(resp.value)
         IN  IF sql.ok
             THEN Returned(ReplaceChar(Strip(sql.value), NL, <<SP>>))
             ELSE Raised("Exception", FailedPrefix \o sql.message)

----------------------------------------------------------------------------
(* Prompt assembly, lines 533-926.  A text of the prompt is the sequence   *)
(* of its lines, each standing for a line feed followed by the line (the   *)
(* f-strings open with a line feed): the empty sequence is the empty str.  *)

None == [none |-> TRUE]

\* Python values that a user_context holds
PyInt(n) == [int |-> n]
PyStr(s) == [str |-> s]
PyBool(b) == [bool |-> b]
PyDict(f) == [dict |-> f]

\* str(v), as an f-string field renders v
Str(v) ==
    IF "none" \in DOMAIN v THEN "None"
    ELSE IF "int" \in DOMAIN v THEN ToString(v.int)
    ELSE IF "bool" \in DOMAIN v THEN (IF v.bool THEN "True" ELSE "False")
    ELSE v.str

\* bool(v) of a dict or None, as "if user_context:" takes it
Truthy(v) == "dict" \in DOMAIN v /\ DOMAIN v.dict # {}

\* dict.get(key)
Get(d, key) == IF key \in DOMAIN d.dict THEN d.dict[key] ELSE None

Indent == "                "

\* Mutant: one instruction shows a placeholder instead of the user's id.
BlockLines_Placeholder(ctx) ==
    << Indent \o "==============================",
       Indent \o "CURRENT USER CONTEXT",
       Indent \o "==============================",
       Indent \o "The logged-in user information:",
       Indent,
       Indent \o "user_id: " \o Str(Get(ctx, "user_id")),
       Indent \o "talent_id: " \o Str(Get(ctx, "talent_id")),
       Indent \o "user_name: " \o Str(Get(ctx, "user_name")),
       Indent \o "email: " \o Str(Get(ctx, "email")),
       Indent \o "is_manager: " \o Str(Get(ctx, "is_manager")),
       Indent,
       Indent \o "CONTEXT RULES:",
       Indent \o "--------------",
       Indent \o "If the user query contains words like:",
       Indent \o "- \"my\"",
       Indent \o "- \"me\"",
       Indent \o "- \"mine\"",
       Indent,
       Indent \o "You MUST interpret them as referring to:",
       Indent \o "users.user_id = " \o Str(Get(ctx, "user_id")),
       Indent,
       Indent \o "Example:",
       Indent \o "\"Show my expertise\"",
       Indent \o "→ WHERE users.user_id = " \o Str(Get(ctx, "user_id")),
       Indent,
       Indent \o "\"Show my submissions\"",
       Indent \o "→ submissions.user_id = <user_id>",
       Indent,
       Indent \o "\"Who is my manager?\"",
       Indent \o "→ lookup manager using manager_user_id.",
       Indent >>

\* Lines 537-568: the f-string of the block, its fields rendered
BlockLines(ctx) ==
    << Indent \o "==============================",
       Indent \o "CURRENT USER CONTEXT",
       Indent \o "==============================",
       Indent \o "The logged-in user information:",
       Indent,
       Indent \o "user_id: " \o Str(Get(ctx, "user_id")),
       Indent \o "talent_id: " \o Str(Get(ctx, "talent_id")),
       Indent \o "user_name: " \o Str(Get(ctx, "user_name")),
       Indent \o "email: " \o Str(Get(ctx, "email")),
       Indent \o "is_manager: " \o Str(Get(ctx, "is_manager")),
       Indent,
       Indent \o "CONTEXT RULES:",
       Indent \o "--------------",
       Indent \o "If the user query contains words like:",
       Indent \o "- \"my\"",
       Indent \o "- \"me\"",
       Indent \o "- \"mine\"",
       Indent,
       Indent \o "You MUST interpret them as referring to:",
       Indent \o "users.user_id = " \o Str(Get(ctx, "user_id")),
       Indent,
       Indent \o "Example:",
       Indent \o "\"Show my expertise\"",
       Indent \o "→ WHERE users.user_id = " \o Str(Get(ctx, "user_id")),
       Indent,
       Indent \o "\"Show my submissions\"",
       Indent \o "→ submissions.user_id = " \o Str(Get(ctx, "user_id")),
       Indent,
       Indent \o "\"Who is my manager?\"",
       Indent \o "→ lookup manager using manager_user_id.",
       Indent >>

\* Mutant: the block is rendered without a context too, its fields None.
ContextBlock_Always(ctx) ==
    BlockLines(IF "dict" \in DOMAIN ctx THEN ctx ELSE PyDict(<<>>))

\* Mutant: the block is rendered only for a context that has a user_id.
ContextBlock_NeedsUserId(ctx) ==
    IF Truthy(ctx) /\ "user_id" \in DOMAIN ctx.dict THEN BlockLines(ctx) ELSE <<>>

\* Mutant: context_block is not reset to "" at the start of a call, so a call
\* without a context keeps the block of the call before it.
ContextBlock_Stale(ctx) ==
    IF Truthy(ctx) THEN BlockLines(ctx)
    ELSE IF calls = <<>> THEN <<>>
    ELSE context_block

\* Lines 533-568: context_block
ContextBlock(ctx) == IF Truthy(ctx) THEN BlockLines(ctx) ELSE <<>>

\* The constant texts of the template, each taken as one piece: lines
\* 571-900 (role, application flow, query rules), TABLE_SCHEMAS (lines
\* 25-200) and SAMPLE_QUERIES (lines 202-454).  None of them has a field.
StaticRules == "<You are an expert DB2 SQL developer ... - project_count>"
TABLE_SCHEMAS == "<TABLE_SCHEMAS>"
SAMPLE_QUERIES == "<SAMPLE_QUERIES>"
Rule == "=============================="

\* Lines 570-926: system_prompt.  The line of {context_block} is empty up
\* to the field, so the block's lines follow an empty line.
SystemPrompt(query, block) ==
    << StaticRules, "", "" >> \o block
    \o << "", Rule, "DATABASE SCHEMA", Rule, "", TABLE_SCHEMAS,
          "", Rule, "EXAMPLE QUERIES", Rule, "", SAMPLE_QUERIES,
          "", Rule, "TASK", Rule, "",
          "Convert the natural language request into correct DB2 SQL.", "",
          "Natural Language Query:", query, "", "SQL Query:", "" >>

----------------------------------------------------------------------------
(* os.environ and config.py.  A variable of the environment is None when   *)
(* it is not set, a str otherwise.                                         *)

\* os.getenv(key, default); os.getenv(key) has the default None
getenv(env, key, default) == IF env[key] = None THEN default ELSE env[key]

\* bool(v) of a str or None, as "not getattr(cls, var)" and all([...]) take it
TruthyStr(v) == "str" \in DOMAIN v /\ v.str # <<>>

\* Lines 44-57 of config.py
required_db_vars ==
    <<"DB2_USERNAME", "DB2_PASSWORD", "DB2_HOSTNAME", "DB2_PORT", "DB2_DATABASE">>
required_watsonx_vars ==
    <<"WATSONX_URL", "WATSONX_API_KEY", "WATSONX_PROJECT_ID", "WATSONX_MODEL_ID">>

\* The name of a variable as a str
NameOf(var) ==
    CASE var = "DB2_USERNAME" ->
          <<"D","B","2","_","U","S","E","R","N","A","M","E">>
      [] var = "DB2_PASSWORD" ->
          <<"D","B","2","_","P","A","S","S","W","O","R","D">>
      [] var = "DB2_HOSTNAME" ->
          <<"D","B","2","_","H","O","S","T","N","A","M","E">>
      [] var = "DB2_PORT" ->
          <<"D","B","2","_","P","O","R","T">>
      [] var = "DB2_DATABASE" ->
          <<"D","B","2","_","D","A","T","A","B","A","S","E">>
      [] var = "WATSONX_URL" ->
          <<"W","A","T","S","O","N","X","_","U","R","L">>
      [] var = "WATSONX_API_KEY" ->
          <<"W","A","T","S","O","N","X","_","A","P","I","_","K","E","Y">>
      [] var = "WATSONX_PROJECT_ID" ->
          <<"W","A","T","S","O","N","X","_","P","R","O","J","E","C","T","_",
            "I","D">>
      [] var = "WATSONX_MODEL_ID" ->
          <<"W","A","T","S","O","N","X","_","M","O","D","E","L","_","I","D">>

\* Lines 19-20 of config.py: the defaults "30756" and "bludb"
DefaultPort == PyStr(<<"3","0","7","5","6">>)
DefaultDatabase == PyStr(<<"b","l","u","d","b">>)

\* Lines 16-27 of config.py: the class attributes validate reads, set when
\* the class body runs (DB2_SCHEMA and the API_* attributes are not read
\* by validate).
ConfigClass(env) ==
    [var \in DOMAIN env |->
        IF var = "DB2_PORT" THEN getenv(env, var, DefaultPort)
        ELSE IF var = "DB2_DATABASE" THEN getenv(env, var, DefaultDatabase)
        ELSE getenv(env, var, None)]

\* "Missing required environment variables: "
MissingPrefix ==
    <<"M","i","s","s","i","n","g"," ","r","e","q","u","i","r","e","d"," ",
      "e","n","v","i","r","o","n","m","e","n","t"," ","v","a","r","i","a",
      "b","l","e","s",":"," ">>

\* "\nPlease check your .env file in the project root."
MissingSuffix ==
    <<NL,"P","l","e","a","s","e"," ","c","h","e","c","k"," ","y","o","u",
      "r"," ",".","e","n","v"," ","f","i","l","e"," ","i","n"," ","t","h",
      "e"," ","p","r","o","j","e","c","t"," ","r","o","o","t",".">>

\* Lines 59-67 of config.py: missing_vars, in the order of the two lists
MissingVars(cls) ==
    SelectSeq(required_db_vars \o required_watsonx_vars,
              LAMBDA var : ~TruthyStr(cls[var]))

\* Config.validate, lines 41-75 of config.py
validate(cls) ==
    LET missing_vars == MissingVars(cls)
    IN  IF missing_vars # <<>>
        THEN Raised("ValueError",
                    MissingPrefix
                    \o Join([i \in 1..Len(missing_vars) |-> NameOf(missing_vars[i])],
                            <<",", SP>>)
                    \o MissingSuffix)
        ELSE Returned(TRUE)


----------------------------------------------------------------------------
(* The constructors main.py calls at startup, and DB2Client                *)

\* "Missing Watsonx.ai credentials in environment variables"
MissingWatsonx ==
    <<"M","i","s","s","i","n","g"," ","W","a","t","s","o","n","x",".","a",
      "i"," ","c","r","e","d","e","n","t","i","a","l","s"," ","i","n"," ",
      "e","n","v","i","r","o","n","m","e","n","t"," ","v","a","r","i","a",
      "b","l","e","s">>

\* os.getenv(key, "").strip(), lines 463-466
StrippedEnv(env, key) == PyStr(Strip(getenv(env, key, PyStr(<<>>)).str))

\* SQLQueryGenerator.__init__, lines 461-495; model is what the call of
\* Model(...) does: it returns the client or raises, and what it raises is
\* raised again.
SQLQueryGenerator_init(env, model) ==
    LET watson_url == StrippedEnv(env, "WATSONX_URL")
        project_id == StrippedEnv(env, "WATSONX_PROJECT_ID")
        model_id == StrippedEnv(env, "WATSONX_MODEL_ID")
        api_key == StrippedEnv(env, "WATSONX_API_KEY")
    IN  IF ~(\A v \in {watson_url, project_id, model_id, api_key} : TruthyStr(v))
        THEN Raised("ValueError", MissingWatsonx)
        ELSE IF ~model.ok THEN model
        ELSE Returned([watson_url |-> watson_url, project_id |-> project_id,
                       model_id |-> model_id, api_key |-> api_key,
                       model |-> model.value])

\* "Please set all required environment variables: DB2_USERNAME, ..."
PleaseSet ==
    <<"P","l","e","a","s","e"," ","s","e","t"," ","a","l","l"," ","r","e",
      "q","u","i","r","e","d"," ","e","n","v","i","r","o","n","m","e","n",
      "t"," ","v","a","r","i","a","b","l","e","s",":"," ","D","B","2","_",
      "U","S","E","R","N","A","M","E",","," ","D","B","2","_","P","A","S",
      "S","W","O","R","D",","," ","D","B","2","_","H","O","S","T","N","A",
      "M","E",","," ","D","B","2","_","P","O","R","T",","," ","D","B","2",
      "_","D","A","T","A","B","A","S","E">>

\* DB2Client.__init__, lines 13-31 of check_fyre.py
DB2Client_init(env) ==
    LET self == [username |-> getenv(env, "DB2_USERNAME", None),
                 password |-> getenv(env, "DB2_PASSWORD", None),
                 hostname |-> getenv(env, "DB2_HOSTNAME", None),
                 port |-> getenv(env, "DB2_PORT", None),
                 database |-> getenv(env, "DB2_DATABASE", None),
                 conn |-> None]
    IN  IF ~(\A v \in {self.username, self.password, self.hostname, self.port,
                       self.database} : TruthyStr(v))
        THEN Raised("ValueError", PleaseSet)
        ELSE Returned(self)

\* "Failed to connect to DB2: "
FailedToConnect ==
    <<"F","a","i","l","e","d"," ","t","o"," ","c","o","n","n","e","c","t",
      " ","t","o"," ","D","B","2",":"," ">>

\* DB2Client.connect, lines 33-50 of check_fyre.py; driver is what
\* ibm_db.connect does: it returns a connection or raises.  The result is
\* the client after the call and what the call yields.
connect(self, driver) ==
    IF driver.ok
    THEN [self |-> [self EXCEPT !.conn = driver.value], outcome |-> Returned(None)]
    ELSE [self |-> self,
          outcome |-> Raised("ConnectionError", FailedToConnect \o driver.message)]

\* "Connection not established. Call connect() first."
NotEstablished ==
    <<"C","o","n","n","e","c","t","i","o","n"," ","n","o","t"," ","e","s",
      "t","a","b","l","i","s","h","e","d","."," ","C","a","l","l"," ","c",
      "o","n","n","e","c","t","(",")"," ","f","i","r","s","t",".">>

\* "Query execution failed: "
ExecutionFailed ==
    <<"Q","u","e","r","y"," ","e","x","e","c","u","t","i","o","n"," ","f",
      "a","i","l","e","d",":"," ">>

\* Mutant: the rows are collected in reverse order.
RECURSIVE FetchAll_Reversed(_)
FetchAll_Reversed(rows) ==
    IF rows = <<>> \/ ~Truthy(Head(rows)) THEN <<>>
    ELSE FetchAll_Reversed(Tail(rows)) \o <<Head(rows)>>

\* Lines 61-67 of check_fyre.py: the rows ibm_db.fetch_assoc yields one
\* after the other, taken up to the first that is not true (fetch_assoc
\* yields False after the last row).
RECURSIVE FetchAll(_)
FetchAll(rows) ==
    IF rows = <<>> \/ ~Truthy(Head(rows)) THEN <<>>
    ELSE <<Head(rows)>> \o FetchAll(Tail(rows))

\* DB2Client.execute_query, lines 52-69 of check_fyre.py; driver is what
\* ibm_db.exec_immediate and the fetches do: they yield the rows or raise.
execute_query(self, query, driver) ==
    IF self.conn = None THEN Raised("ConnectionError", NotEstablished)
    ELSE IF ~driver.ok
         THEN Raised("RuntimeError", ExecutionFailed \o driver.message)
         ELSE Returned(FetchAll(driver.value))

\* "Non-query execution failed: "
NonQueryFailed ==
    <<"N","o","n","-","q","u","e","r","y"," ","e","x","e","c","u","t","i",
      "o","n"," ","f","a","i","l","e","d",":"," ">>

\* DB2Client.execute_non_query, lines 84-96 of check_fyre.py (the second
\* definition, which replaces the first of lines 71-83; they are the same);
\* driver is what ibm_db.exec_immediate does.
execute_non_query(self, query, driver) ==
    IF self.conn = None THEN Raised("ConnectionError", NotEstablished)
    ELSE IF ~driver.ok
         THEN Raised("RuntimeError", NonQueryFailed \o driver.message)
         ELSE Returned(PyBool(TRUE))

\* Line 130 of check_fyre.py, "if self.conn:": None is false, and a
\* connection object of ibm_db is true, open or closed.
HasConn(self) == self.conn # None

\* DB2Client.close, lines 126-132 of check_fyre.py; driver is what
\* ibm_db.close does, and its exception is not caught.  self.conn is not
\* assigned: the client is the same after the call.
close(self, driver) ==
    IF HasConn(self)
    THEN [self |-> self, outcome |-> IF driver.ok THEN Returned(None) ELSE driver]
    ELSE [self |-> self, outcome |-> Returned(None)]

\* The driver: ibm_db holds the connections it has made, each open or
\* closed, and the calls made to it.  A call on a connection is recorded
\* with the state the connection was in.
DriverCall(op, conn, db) ==
    [op |-> op, handle |-> conn.handle, state |-> db.handles[conn.handle]]

\* ibm_db.connect makes a new open connection, or raises.
NewConnection(db) == [handle |-> Len(db.handles) + 1]

\* "Connection is not active"
NotActive ==
    <<"C","o","n","n","e","c","t","i","o","n"," ","i","s"," ","n","o","t",
      " ","a","c","t","i","v","e">>

\* The client's call of execute_query, execute_non_query or close, as the
\* history of the client records it: what was called, what it yielded and
\* how many calls of the driver it made.
ClientCall(op, outcome, driver_calls) ==
    [op |-> op, outcome |-> outcome, driver_calls |-> driver_calls]


----------------------------------------------------------------------------
(* process_query, lines 92-115 of main.py                                  *)

\* The text of a str as one string, as a line of the prompt holds it
RECURSIVE StrOf(_)
StrOf(s) == IF s = <<>> THEN "" ELSE Head(s) \o StrOf(Tail(s))

\* "Missing user query"
MissingUserQuery ==
    <<"M","i","s","s","i","n","g"," ","u","s","e","r"," ","q","u","e","r",
      "y">>

\* "400: Missing user query"
StatusAndDetail ==
    <<"4","0","0",":"," ","M","i","s","s","i","n","g"," ","u","s","e","r",
      " ","q","u","e","r","y">>

\* Line 97: HTTPException(status_code=400, detail="Missing user query")
MissingQueryError ==
    [ok |-> FALSE, type |-> "HTTPException", status_code |-> 400,
     detail |-> MissingUserQuery]

\* str(e) of the exception of line 97, which "except Exception" catches
\* (HTTPException is an Exception).  The class is the library's: it
\* yields "400: Missing user query" where the library defines __str__, and
\* the empty str where it does not (the exception is built with keyword
\* arguments only).
StrOfMissingQueryError == {StatusAndDetail, <<>>}

\* The local variables of one invocation of process_query and of the
\* generate_sql_query it calls, before any is assigned
NoLocals ==
    [user_query |-> None, context_block |-> None, system_prompt |-> None,
     sql_query |-> None, results |-> None]

\* Mutant: the locals of every invocation are one set of globals.
Frame_Shared(r) == 1

\* Each invocation of process_query has local variables of its own.
Frame(r) == r

\* Mutant: the query is checked and passed on as it came.
StrippedQuery_NoStrip(req) == req.user_query

\* Line 95
StrippedQuery(req) == Strip(req.user_query)

\* Mutant: the handler passes a context of the logged-in user.
ContextOfRequest_FromBody(req) == PyDict([user_id |-> PyInt(42)])

\* Line 100: generate_sql_query(user_query) is called with the query
\* alone, so user_context is its default, None (line 527 of
\* sql_query_generator.py); the request has no other field (lines 14-16).
ContextOfRequest(req) == None

\* Mutant: the executor is given the user's query.
QueryToExecute_UserQuery(locals) == locals.user_query

\* Line 104: the argument of db_client.execute_query
QueryToExecute(locals) == locals.sql_query

\* Lines 106-112; the timestamp is the time of the answer
QueryResponse(locals) ==
    [status_code |-> 200,
     body |-> [success |-> TRUE,
               natural_query |-> locals.user_query,
               generated_sql |-> locals.sql_query,
               results |-> locals.results,
               timestamp |-> "datetime.now().isoformat()"]]

\* Mutant: a failure is answered with an empty result.
ErrorResponse_EmptyResult(message) ==
    [status_code |-> 200,
     body |-> [success |-> FALSE, natural_query |-> <<>>, generated_sql |-> <<>>,
               results |-> <<>>, timestamp |-> "datetime.now().isoformat()"]]

\* Lines 114-115: HTTPException(status_code=500, detail=str(e))
ErrorResponse(message) == [status_code |-> 500, detail |-> message]

\* A stage of a request, as trace records it: what it was given and what
\* it yielded (None while it has not returned)
Stage(name, arg, result) == [stage |-> name, arg |-> arg, result |-> result]


----------------------------------------------------------------------------
(* The completions the checks run over: every text of up to MaxLines lines *)
(* of LineBank, and the worked examples.                                   *)

MaxLines == 3

LineSelect1 == <<"S","E","L","E","C","T"," ","1">>
LineThanks == <<"T","h","a","n","k","s","!">>
LineExplanation == <<"E","x","p","l","a","n","a","t","i","o","n",":"," ","f","o","o">>
LineSelectUsers == <<"S","E","L","E","C","T"," ","*"," ","F","R","O","M"," ","u","s","e","r","s">>
LineHere == <<"H","e","r","e"," ","i","s"," ","t","h","e"," ","a","n","s","w","e","r",".">>
LineUpdate == <<"U","P","D","A","T","E"," ","u","s","e","r","s"," ","S","E","T"," ","x","=","1">>
LineLabel == <<"S","Q","L",":"," ","s","e","l","e","c","t"," ","2",";">>
LineThen == <<" ","T","H","E","N"," ","3">>
LineNote == <<"n","o","t","e",":"," ","x",";">>
LineThis == <<"t","H","I","S">>
LineSemiFence == <<BQ,";",BQ,BQ,"s","q","l">>
LineFiveFence == <<BQ,BQ,BQ,BQ,BQ,"s","q","l">>
LineFenceUpper == <<BQ,BQ,BQ,"S","Q","L">>

LineBank ==
    { FenceSql, Fence, LineSelect1, LineThanks, LineExplanation, LineHere,
      LineLabel, LineThen, LineNote, LineThis, LineSemiFence, LineFiveFence,
      LineFenceUpper, <<>> }

ExampleFenced == Join(<<FenceSql, LineSelect1, Fence, LineThanks>>, <<NL>>)
ExamplePreamble == Join(<<LineExplanation, LineSelectUsers>>, <<NL>>)
ExampleUpdate == Join(<<LineHere, LineUpdate>>, <<NL>>)
ExampleWrapped ==
    Join(<<LineHere, FenceSql, LineSelectUsers, LineLabel, Fence, LineThanks>>, <<NL>>)

Examples == {ExampleFenced, ExamplePreamble, ExampleUpdate, ExampleWrapped}

Completions ==
    { Join(ls, <<NL>>) : ls \in UNION { [1..n -> LineBank] : n \in 0..MaxLines } }
    \cup Examples

\* A failure of the remote call: "timeout"
RemoteFailure == Raised("Exception", <<"t","i","m","e","o","u","t">>)

\* What the remote model may do in the runs over prompts.
SomeResponses == {Returned(ExampleFenced), Returned(ExampleUpdate), RemoteFailure}

\* The user contexts the checks run over: None, and every dict that gives
\* any of the keys a value; "role" is a key the block does not read.
MaxUserId == 1

ValuesOf(key) ==
    CASE key = "user_id" -> {PyInt(n) : n \in 0..MaxUserId} \cup {PyInt(42), None}
      [] key = "talent_id" -> {PyStr("T100")}
      [] key = "user_name" -> {PyStr("Ana Diaz")}
      [] key = "email" -> {PyStr("ana@example.com")}
      [] key = "is_manager" -> {PyBool(TRUE), PyBool(FALSE)}
      [] key = "role" -> {PyStr("DC")}

ContextKeys == {"user_id", "talent_id", "user_name", "email", "is_manager"}

Dicts ==
    UNION { {f \in [keys -> UNION {ValuesOf(k) : k \in keys}] :
                \A k \in keys : f[k] \in ValuesOf(k)} :
            keys \in SUBSET (ContextKeys \cup {"role"}) }

UserContexts == {None} \cup {PyDict(f) : f \in Dicts}

Queries == {"Show my submissions", "Top 5 users with most approved assets"}

\* The calls of generate_sql_query the runs over repeated calls make: up to
\* MaxCalls calls, each with any of these arguments.
MaxCalls == 3

CallContexts ==
    { None, PyDict(<<>>), PyDict([user_id |-> PyInt(1)]),
      PyDict([user_id |-> PyInt(42), user_name |-> PyStr("Ana Diaz")]) }

CallResponses == {Returned(ExampleFenced), RemoteFailure}

\* The environments the checks of the configuration run over: each of the
\* nine variables is not set, empty or set; a Watsonx variable may also be
\* a blank.
EnvVars ==
    {required_db_vars[i] : i \in 1..Len(required_db_vars)}
    \cup {required_watsonx_vars[i] : i \in 1..Len(required_watsonx_vars)}

EnvValues(var) ==
    IF \E i \in 1..Len(required_db_vars) : required_db_vars[i] = var
    THEN {None, PyStr(<<>>), PyStr(<<"x">>)}
    ELSE {None, PyStr(<<>>), PyStr(<<SP>>), PyStr(<<"x">>)}

Environments ==
    {env \in [EnvVars -> {None, PyStr(<<>>), PyStr(<<SP>>), PyStr(<<"x">>)}] :
        \A var \in EnvVars : env[var] \in EnvValues(var)}

\* An environment that sets every variable, and the environments the
\* service is started in.
GoodEnv == [var \in EnvVars |-> PyStr(<<"x">>)]

ServiceEnvs ==
    { GoodEnv,
      [GoodEnv EXCEPT !["DB2_PASSWORD"] = None],
      [GoodEnv EXCEPT !["DB2_PORT"] = None],
      [GoodEnv EXCEPT !["WATSONX_URL"] = PyStr(<<SP>>)] }

\* What Model(...) and ibm_db.connect may do at startup
ModelOutcomes ==
    { Returned([client |-> "Model"]),
      Raised("Exception", <<"b","a","d"," ","k","e","y">>) }

ConnectOutcomes ==
    { Returned([handle |-> "ibm_db connection"]),
      Raised("Exception", <<"r","e","f","u","s","e","d">>) }

\* The generator of the runs that call it directly
Generator == SQLQueryGenerator_init(GoodEnv, Returned([client |-> "Model"])).value

\* The requests: up to MaxRequests POST /query in flight at once, each with
\* any of these bodies.
MaxRequests == 2

Requests == 1..MaxRequests

RawQueries ==
    { <<>>, <<SP, NL>>, <<SP,"m","y"," ","s","k","i","l","l","s",SP>>,
      <<"t","o","p"," ","5">> }

\* What the remote model may answer to a request
ServiceResponses == SomeResponses \cup {Returned(ExamplePreamble)}

\* What the driver may do with a statement: raise, or yield rows (False
\* after the last).
RowAna == PyDict([USER_NAME |-> PyStr("Ana")])
RowBo == PyDict([USER_NAME |-> PyStr("Bo")])

DriverOutcomes ==
    { Returned(<<PyBool(FALSE)>>),
      Returned(<<RowBo, RowAna, PyBool(FALSE)>>),
      Raised("Exception", <<"S","Q","L","0","2","0","4","N">>) }

\* The direct calls of a DB2Client: up to MaxClientCalls calls of connect,
\* execute_query, execute_non_query and close, in any order.
MaxClientCalls == 4

SelectStatement ==
    <<"S","E","L","E","C","T"," ","1"," ","F","R","O","M"," ","S","Y","S",
      "I","B","M",".","S","Y","S","D","U","M","M","Y","1">>

DeleteStatement ==
    <<"D","E","L","E","T","E"," ","F","R","O","M"," ","T">>

\* What ibm_db.connect may do, given the connections made so far
ClientConnectOutcomes(db) ==
    { Returned(NewConnection(db)),
      Raised("Exception", <<"r","e","f","u","s","e","d">>) }

\* What ibm_db.exec_immediate and the fetches may do with a query on a
\* connection: on a closed one the driver raises.
QueryOutcomes(conn, db) ==
    IF db.handles[conn.handle] = "open" THEN DriverOutcomes
    ELSE {Raised("Exception", NotActive)}

\* What ibm_db.exec_immediate may do with a statement that yields no rows
NonQueryOutcomes(conn, db) ==
    IF db.handles[conn.handle] = "open"
    THEN { Returned(<<>>), Raised("Exception", <<"S","Q","L","0","2","0","4","N">>) }
    ELSE {Raised("Exception", NotActive)}

\* What ibm_db.close may do: it closes an open connection; of a closed one
\* it reports the failure, by its result or by an exception.
CloseOutcomes(conn, db) ==
    IF db.handles[conn.handle] = "open" THEN {Returned(PyBool(TRUE))}
    ELSE {Returned(PyBool(FALSE)), Raised("Exception", NotActive)}

----------------------------------------------------------------------------
(* Operations                                                              *)

\* The configuration is not loaded and the service is not started.
NoConfig ==
    /\ environ = GoodEnv
    /\ config = None
    /\ validated = None

NoService ==
    /\ app = "import"
    /\ startup = None
    /\ ibm_db = [handles |-> <<>>, calls |-> <<>>]
    /\ client_calls = <<>>
    /\ db_client = None
    /\ request = [r \in Requests |-> None]
    /\ at = [r \in Requests |-> "idle"]
    /\ frame = [r \in Requests |-> NoLocals]
    /\ http = [r \in Requests |-> None]
    /\ trace = [r \in Requests |-> <<>>]

NoCall ==
    /\ pc = "start"
    /\ cleaned = None
    /\ generated = None
    /\ context_block = None
    /\ system_prompt = None
    /\ calls = <<>>

InitClean ==
    /\ response \in {Returned(c) : c \in Completions} \cup {RemoteFailure}
    /\ natural_language_query = "Top 5 users with most approved assets"
    /\ user_context = None
    /\ NoCall
    /\ sql_generator = Generator
    /\ NoConfig
    /\ NoService

InitPrompt ==
    /\ response \in SomeResponses
    /\ natural_language_query \in Queries
    /\ user_context \in UserContexts
    /\ NoCall
    /\ sql_generator = Generator
    /\ NoConfig
    /\ NoService

InitCalls ==
    /\ response \in CallResponses
    /\ natural_language_query \in Queries
    /\ user_context \in CallContexts
    /\ NoCall
    /\ sql_generator = Generator
    /\ NoConfig
    /\ NoService

InitConfig ==
    /\ environ \in Environments
    /\ config = None
    /\ validated = None
    /\ response = RemoteFailure
    /\ natural_language_query = ""
    /\ user_context = None
    /\ NoCall
    /\ sql_generator = None
    /\ NoService

InitService ==
    /\ environ \in ServiceEnvs
    /\ config = None
    /\ validated = None
    /\ response = RemoteFailure
    /\ natural_language_query = ""
    /\ user_context = None
    /\ NoCall
    /\ sql_generator = None
    /\ NoService

\* A direct call of clean_sql_query on the text.
CleanSqlQuery ==
    /\ pc = "start"
    /\ response.ok
    /\ cleaned' = clean_sql_query(response.value)
    /\ pc' = "cleaned"
    /\ UNCHANGED <<response, generated, natural_language_query, user_context,
                   context_block, system_prompt, calls>>
    /\ UNCHANGED <<configVars, sql_generator, serviceVars, clientVars>>

\* generate_sql_query(natural_language_query, user_context), lines 527-941;
\* response is what self.model.generate_text does when called.  No line of
\* it assigns to an attribute of self.
GenerateSqlQuery ==
    /\ pc = "start"
    /\ context_block' = ContextBlock(user_context)
    /\ system_prompt' = SystemPrompt(natural_language_query, context_block')
    /\ generated' = generate_sql_query_try(response)
    /\ calls' = Append(calls, [natural_language_query |-> natural_language_query,
                               user_context |-> user_context,
                               system_prompt |-> system_prompt'])
    /\ pc' = "generated"
    /\ UNCHANGED <<response, cleaned, natural_language_query, user_context>>
    /\ UNCHANGED <<configVars, sql_generator, serviceVars, clientVars>>

\* The caller calls generate_sql_query once more, with any arguments; the
\* locals of the call that returned are gone with it.
CallAgain ==
    /\ pc = "generated"
    /\ Len(calls) < MaxCalls
    /\ pc' = "start"
    /\ response' \in CallResponses
    /\ natural_language_query' \in Queries
    /\ user_context' \in CallContexts
    /\ UNCHANGED <<cleaned, generated, context_block, system_prompt, calls>>
    /\ UNCHANGED <<configVars, sql_generator, serviceVars, clientVars>>

\* The import of config.py (line 10 of main.py): the class body sets the
\* attributes (lines 16-27), then lines 108-113 call Config.validate() and
\* raise what it raises, which ends the process.
ImportConfig ==
    /\ app = "import"
    /\ config' = ConfigClass(environ)
    /\ validated' = validate(config')
    /\ app' = IF validated'.ok THEN "startup" ELSE "failed"
    /\ UNCHANGED <<callVars, environ, sql_generator, startup, db_client,
                   request, at, frame, http, trace, clientVars>>

\* startup_event, lines 65-90 of main.py.  An exception of a constructor
\* or of connect() ends the startup: the service does not get ready, and
\* the globals assigned before it stay assigned.
Startup ==
    /\ app = "startup"
    /\ \E model \in ModelOutcomes, driver \in ConnectOutcomes :
         LET generator == SQLQueryGenerator_init(environ, model)
             client == DB2Client_init(environ)
         IN  IF ~generator.ok
             THEN /\ app' = "failed"
                  /\ startup' = generator
                  /\ UNCHANGED <<sql_generator, db_client>>
             ELSE /\ sql_generator' = generator.value
                  /\ IF ~client.ok
                     THEN /\ app' = "failed"
                          /\ startup' = client
                          /\ UNCHANGED db_client
                     ELSE LET connected == connect(client.value, driver)
                          IN  /\ db_client' = connected.self
                              /\ startup' = connected.outcome
                              /\ app' = IF connected.outcome.ok THEN "ready"
                                        ELSE "failed"
    /\ UNCHANGED <<callVars, configVars, request, at, frame, http, trace,
                   clientVars>>

\* POST /query arrives with a body and its handler runs up to the call of
\* self.model.generate_text (lines 94-100 of main.py, lines 533-932 of
\* sql_query_generator.py).  An empty query raises the exception of line 97
\* inside the try, so line 114 catches it and line 115 answers.
ProcessQuery(r) ==
    /\ app = "ready"
    /\ at[r] = "idle"
    /\ \E raw \in RawQueries, text \in StrOfMissingQueryError :
         LET req == [user_query |-> raw]
             user_query == StrippedQuery(req)
             block == ContextBlock(ContextOfRequest(req))
             prompt == SystemPrompt(StrOf(user_query), block)
         IN  /\ request' = [request EXCEPT ![r] = req]
             /\ IF user_query = <<>>
                THEN /\ frame' = [frame EXCEPT ![Frame(r)].user_query = user_query]
                     /\ http' = [http EXCEPT ![r] = ErrorResponse(text)]
                     /\ at' = [at EXCEPT ![r] = "done"]
                     /\ UNCHANGED trace
                ELSE /\ frame' = [frame EXCEPT ![Frame(r)] =
                                    [@ EXCEPT !.user_query = user_query,
                                              !.context_block = block,
                                              !.system_prompt = prompt]]
                     /\ trace' = [trace EXCEPT ![r] =
                                    << Stage("build_prompt", user_query, prompt),
                                       Stage("generate_text", prompt, None) >>]
                     /\ at' = [at EXCEPT ![r] = "generate_text"]
                     /\ UNCHANGED http
    /\ UNCHANGED <<callVars, configVars, app, startup, sql_generator, db_client,
                   clientVars>>

\* self.model.generate_text returns or raises, and the handler runs on
\* (lines 932-941 of sql_query_generator.py, lines 100-104 of main.py) up
\* to the call of ibm_db.exec_immediate (lines 56-60 of check_fyre.py).
CompletionReturns(r) ==
    /\ at[r] = "generate_text"
    /\ \E resp \in ServiceResponses :
         LET sql == generate_sql_query_try(resp)
             completed ==
                 [trace[r] EXCEPT ![2].result = resp]
                 \o (IF resp.ok
                     THEN <<Stage("clean_sql_query", resp.value,
                                  clean_sql_query(resp.value))>>
                     ELSE <<>>)
             locals == [frame[Frame(r)] EXCEPT !.sql_query = sql.value]
             query == QueryToExecute(locals)
         IN  IF ~sql.ok
             THEN /\ http' = [http EXCEPT ![r] = ErrorResponse(sql.message)]
                  /\ trace' = [trace EXCEPT ![r] = completed]
                  /\ at' = [at EXCEPT ![r] = "done"]
                  /\ UNCHANGED frame
             ELSE /\ frame' = [frame EXCEPT ![Frame(r)] = locals]
                  /\ IF db_client.conn = None
                     THEN /\ http' = [http EXCEPT ![r] = ErrorResponse(NotEstablished)]
                          /\ trace' = [trace EXCEPT ![r] = completed \o
                                 <<Stage("execute_query", query,
                                         Raised("ConnectionError", NotEstablished))>>]
                          /\ at' = [at EXCEPT ![r] = "done"]
                     ELSE /\ trace' = [trace EXCEPT ![r] = completed \o
                                 << Stage("execute_query", query, None),
                                    Stage("exec_immediate", query, None) >>]
                          /\ at' = [at EXCEPT ![r] = "exec_immediate"]
                          /\ UNCHANGED http
    /\ UNCHANGED <<callVars, configVars, app, startup, sql_generator, db_client,
                   request, clientVars>>

\* The driver yields the rows or raises, and the handler runs to its end
\* (lines 60-69 of check_fyre.py, lines 104-115 of main.py).
DriverReturns(r) ==
    /\ at[r] = "exec_immediate"
    /\ \E driver \in DriverOutcomes :
         LET n == Len(trace[r])
             query == trace[r][n].arg
             results == execute_query(db_client, query, driver)
             locals == [frame[Frame(r)] EXCEPT !.results = results.value]
         IN  /\ trace' = [trace EXCEPT ![r] =
                            [@ EXCEPT ![n - 1].result = results,
                                      ![n].result = driver]]
             /\ IF results.ok
                THEN /\ frame' = [frame EXCEPT ![Frame(r)] = locals]
                     /\ http' = [http EXCEPT ![r] = QueryResponse(locals)]
                ELSE /\ http' = [http EXCEPT ![r] = ErrorResponse(results.message)]
                     /\ UNCHANGED frame
             /\ at' = [at EXCEPT ![r] = "done"]
    /\ UNCHANGED <<callVars, configVars, app, startup, sql_generator, db_client,
                   request, clientVars>>

\* A client constructed in a good environment, not yet connected, outside
\* the service.
InitClient ==
    /\ NoConfig
    /\ response = RemoteFailure
    /\ natural_language_query = ""
    /\ user_context = None
    /\ NoCall
    /\ sql_generator = None
    /\ app = "import"
    /\ startup = None
    /\ ibm_db = [handles |-> <<>>, calls |-> <<>>]
    /\ client_calls = <<>>
    /\ db_client = DB2Client_init(GoodEnv).value
    /\ request = [r \in Requests |-> None]
    /\ at = [r \in Requests |-> "idle"]
    /\ frame = [r \in Requests |-> NoLocals]
    /\ http = [r \in Requests |-> None]
    /\ trace = [r \in Requests |-> <<>>]

\* db_client.connect(), lines 33-50 of check_fyre.py
ClientConnect ==
    /\ Len(client_calls) < MaxClientCalls
    /\ \E driver \in ClientConnectOutcomes(ibm_db) :
         LET connected == connect(db_client, driver)
         IN  /\ db_client' = connected.self
             /\ ibm_db' =
                  [handles |-> IF driver.ok THEN Append(ibm_db.handles, "open")
                               ELSE ibm_db.handles,
                   calls |-> Append(ibm_db.calls,
                                    [op |-> "connect",
                                     handle |-> IF driver.ok THEN driver.value.handle
                                                ELSE 0,
                                     state |-> "none"])]
             /\ client_calls' =
                  Append(client_calls, ClientCall("connect", connected.outcome, 1))
    /\ UNCHANGED <<callVars, configVars, sql_generator, app, startup, request,
                   at, frame, http, trace>>

\* db_client.execute_query(query), lines 52-69 of check_fyre.py
ClientExecuteQuery ==
    /\ Len(client_calls) < MaxClientCalls
    /\ IF db_client.conn = None
       THEN /\ client_calls' =
                 Append(client_calls,
                        ClientCall("execute_query",
                                   execute_query(db_client, SelectStatement,
                                                 RemoteFailure), 0))
            /\ UNCHANGED ibm_db
       ELSE \E driver \in QueryOutcomes(db_client.conn, ibm_db) :
              /\ client_calls' =
                   Append(client_calls,
                          ClientCall("execute_query",
                                     execute_query(db_client, SelectStatement,
                                                   driver), 1))
              /\ ibm_db' = [ibm_db EXCEPT !.calls =
                              Append(@, DriverCall("exec_immediate",
                                                   db_client.conn, ibm_db))]
    /\ UNCHANGED <<callVars, configVars, sql_generator, app, startup, db_client,
                   request, at, frame, http, trace>>

\* db_client.execute_non_query(query), lines 84-96 of check_fyre.py
ClientExecuteNonQuery ==
    /\ Len(client_calls) < MaxClientCalls
    /\ IF db_client.conn = None
       THEN /\ client_calls' =
                 Append(client_calls,
                        ClientCall("execute_non_query",
                                   execute_non_query(db_client, DeleteStatement,
                                                     RemoteFailure), 0))
            /\ UNCHANGED ibm_db
       ELSE \E driver \in NonQueryOutcomes(db_client.conn, ibm_db) :
              /\ client_calls' =
                   Append(client_calls,
                          ClientCall("execute_non_query",
                                     execute_non_query(db_client, DeleteStatement,
                                                       driver), 1))
              /\ ibm_db' = [ibm_db EXCEPT !.calls =
                              Append(@, DriverCall("exec_immediate",
                                                   db_client.conn, ibm_db))]
    /\ UNCHANGED <<callVars, configVars, sql_generator, app, startup, db_client,
                   request, at, frame, http, trace>>

\* db_client.close(), lines 126-132 of check_fyre.py, as shutdown_event
\* (lines 117-121 of main.py) and any other caller calls it
ClientClose ==
    /\ Len(client_calls) < MaxClientCalls
    /\ IF ~HasConn(db_client)
       THEN /\ client_calls' =
                 Append(client_calls,
                        ClientCall("close", close(db_client, RemoteFailure).outcome, 0))
            /\ db_client' = close(db_client, RemoteFailure).self
            /\ UNCHANGED ibm_db
       ELSE \E driver \in CloseOutcomes(db_client.conn, ibm_db) :
              LET closed == close(db_client, driver)
              IN  /\ db_client' = closed.self
                  /\ client_calls' =
                       Append(client_calls, ClientCall("close", closed.outcome, 1))
                  /\ ibm_db' =
                       [handles |-> [ibm_db.handles EXCEPT
                                        ![db_client.conn.handle] = "closed"],
                        calls |-> Append(ibm_db.calls,
                                         DriverCall("close", db_client.conn, ibm_db))]
    /\ UNCHANGED <<callVars, configVars, sql_generator, app, startup, request,
                   at, frame, http, trace>>

NextClean == CleanSqlQuery \/ GenerateSqlQuery

SpecClean == InitClean /\ [][NextClean]_vars

NextPrompt == GenerateSqlQuery

SpecPrompt == InitPrompt /\ [][NextPrompt]_vars

NextCalls == GenerateSqlQuery \/ CallAgain

SpecCalls == InitCalls /\ [][NextCalls]_vars

NextConfig == ImportConfig

SpecConfig == InitConfig /\ [][NextConfig]_vars

\* The import of config.py and the startup that follows it, in any
\* environment.
NextStartup == ImportConfig \/ Startup

SpecStartup == InitConfig /\ [][NextStartup]_vars

NextService ==
    \/ ImportConfig
    \/ Startup
    \/ \E r \in Requests : ProcessQuery(r)
    \/ \E r \in Requests : CompletionReturns(r)
    \/ \E r \in Requests : DriverReturns(r)

SpecService == InitService /\ [][NextService]_vars

\* The calls of a DB2Client, in any order
NextClient ==
    \/ ClientConnect
    \/ ClientExecuteQuery
    \/ ClientExecuteNonQuery
    \/ ClientClose

SpecClient == InitClient /\ [][NextClient]_vars

----------------------------------------------------------------------------
(* Statements about clean_sql_query, in terms that do not use its code     *)

\* pat occurs in t at index i
OccursAt(t, pat, i) ==
    /\ i >= 1
    /\ i + Len(pat) - 1 <= Len(t)
    /\ \A k \in 1..Len(pat) : t[i + k - 1] = pat[k]

Occurrences(t, pat) == {i \in 1..Len(t) : OccursAt(t, pat, i)}

Least(S) == CHOOSE i \in S : \A j \in S : i <= j

\* The text after the first opening marker (three backquotes and sql).
AfterOpening(t) ==
    SubSeq(t, Least(Occurrences(t, FenceSql)) + Len(FenceSql), Len(t))

\* Where the fenced content ends in the text a after the opening marker: at
\* the first closing fence (three backquotes); backquotes that run into a
\* further opening marker one or two characters later do not count as a
\* closing fence, the marker itself does.
ClosingFences(a) ==
    {p \in Occurrences(a, Fence) :
        \A q \in Occurrences(a, FenceSql) :
            (\A r \in Occurrences(a, FenceSql) : q <= r) => ~(p < q /\ q < p + 3)}

FencedContent(t) ==
    LET a == AfterOpening(t)
    IN  IF ClosingFences(a) = {} THEN a
        ELSE SubSeq(a, 1, Least(ClosingFences(a)) - 1)

\* c is letter l in either case (l given in lower case)
SameLetter(c, l) == c = l \/ LowerChar(c) = l

\* line begins with word w (given in lower case) in any letter case
BeginsWithAnyCase(line, w) ==
    /\ Len(line) >= Len(w)
    /\ \A i \in 1..Len(w) : SameLetter(line[i], w[i])

Trimmed(line) ==
    LET keep == {i \in 1..Len(line) : line[i] \notin {SP, NL}}
    IN  IF keep = {} THEN <<>>
        ELSE SubSeq(line, Least(keep), CHOOSE i \in keep : \A j \in keep : j <= i)

PreambleWords ==
    { <<"h","e","r","e">>, <<"t","h","e">>, <<"t","h","i","s">>,
      <<"n","o","t","e",":">>,
      <<"e","x","p","l","a","n","a","t","i","o","n",":">> }

\* a preamble line: trimmed, it begins with Here, The, This, Note: or
\* Explanation: in any letter case
IsPreamble(line) == \E w \in PreambleWords : BeginsWithAnyCase(Trimmed(line), w)

HasLabel(line) == BeginsWithAnyCase(Trimmed(line), <<"s","q","l",":">>)

\* the lines of a text
LinesOf(t) ==
    LET breaks == {i \in 1..Len(t) : t[i] = NL}
        starts == {1} \cup {i + 1 : i \in breaks}
        EndOf(b) == Least({i \in breaks \cup {Len(t) + 1} : i >= b}) - 1
        ordered == [k \in 1..Cardinality(starts) |->
                      CHOOSE b \in starts : Cardinality({c \in starts : c < b}) = k - 1]
    IN  [k \in 1..Cardinality(starts) |-> SubSeq(t, ordered[k], EndOf(ordered[k]))]

\* the text made of the given lines
TextOf(lines) == Join(lines, <<NL>>)

\* the text the completion is cleaned from: the fenced content when there
\* is an opening marker, the whole completion otherwise
CleanedFrom(t) == IF Occurrences(t, FenceSql) = {} THEN t ELSE FencedContent(t)

\* the text with its preamble lines deleted
WithoutPreamble(t) == TextOf(SelectSeq(LinesOf(t), LAMBDA l : ~IsPreamble(l)))

\* what a kept line contributes: a line that begins with the label sql:
\* contributes what follows the label, trimmed; any other line, itself
Piece(line) ==
    IF HasLabel(line)
    THEN Trimmed(SubSeq(Trimmed(line), 5, Len(Trimmed(line))))
    ELSE Trimmed(line)

\* the statement the sanitizer is to return for the text t: the pieces of
\* the lines that are neither empty nor preamble, in order, joined by
\* single blanks, without semicolons, trimmed
ExpectedSql(t) ==
    LET kept == SelectSeq(LinesOf(t), LAMBDA l : Trimmed(l) # <<>> /\ ~IsPreamble(l))
        joined == Join([i \in 1..Len(kept) |-> Piece(kept[i])], <<SP>>)
    IN  Trimmed(SelectSeq(joined, LAMBDA c : c # ";"))

select == <<"s","e","l","e","c","t">>

HasChar(t, c) == \E i \in 1..Len(t) : t[i] = c

----------------------------------------------------------------------------
C2_PreambleLinesAbsent ==
    /\ pc = "cleaned"
         => cleaned = clean_sql_query(WithoutPreamble(CleanedFrom(response.value)))
    /\ (pc = "cleaned" /\ response.value = ExamplePreamble)
         => cleaned = Returned(LineSelectUsers)

C2_Witness ==
    /\ pc = "cleaned"
    /\ response.value = ExamplePreamble
    /\ cleaned = Returned(LineSelectUsers)

(* C3: a kept line that begins with the label sql: in any letter case      *)
(* contributes to the output the remainder of the line and not the label:  *)
(* the output is made of the pieces of the kept lines.                     *)
C3_LabelRemovedRemainderKept ==
    (pc = "cleaned" /\ cleaned.ok)
        => cleaned.value = ExpectedSql(CleanedFrom(response.value))

C3_Witness ==
    /\ pc = "cleaned"
    /\ response.value = TextOf(<<LineSelect1, LineLabel>>)
    /\ cleaned = Returned(LineSelect1 \o <<SP>> \o <<"s","e","l","e","c","t"," ","2">>)

(* C4: clean_sql_query never returns a string containing a semicolon.      *)
C4_NoSemicolon ==
    (pc = "cleaned" /\ cleaned.ok) => ~HasChar(cleaned.value, ";")

C4_Witness ==
    /\ pc = "cleaned"
    /\ cleaned.ok
    /\ HasChar(response.value, ";")

(* C5: clean_sql_query returns a string only if the cleaned text begins    *)
(* with SELECT in any letter case; for every other input it raises the     *)
(* invalid-generation error (ValueError) and returns nothing.  Here is the *)
(* answer. followed by UPDATE users SET x=1 is rejected.                   *)
C5_SelectOrInvalidGeneration ==
    pc = "cleaned" =>
        /\ cleaned.ok => BeginsWithAnyCase(cleaned.value, select)
        /\ cleaned.ok <=>
             BeginsWithAnyCase(ExpectedSql(CleanedFrom(response.value)), select)
        /\ ~cleaned.ok => (cleaned.type = "ValueError" /\ "value" \notin DOMAIN cleaned)
        /\ response.value = ExampleUpdate => ~cleaned.ok

C5_Witness ==
    /\ pc = "cleaned"
    /\ response.value = ExampleUpdate
    /\ ~cleaned.ok
    /\ cleaned.type = "ValueError"

(* C6 as stated: when the sanitizer rejects a completion, the failure it   *)
(* raises, and the failure generate_sql_query surfaces, carry the rejected *)
(* text.                                                                   *)
C6_FailureCarriesRejectedText ==
    /\ (pc = "cleaned" /\ ~cleaned.ok)
         => Contains(cleaned.message, ExpectedSql(CleanedFrom(response.value)))
    /\ (pc = "generated" /\ response.ok /\ ~generated.ok)
         => Contains(generated.message, ExpectedSql(CleanedFrom(response.value)))

(* C6 as amended: the failure raised for a rejected completion carries the *)
(* fixed message "Generated output is not a valid SELECT statement", the   *)
(* same for every rejected text, and generate_sql_query surfaces "Failed   *)
(* to generate SQL query: " followed by that message.                      *)
C6_FailureCarriesFixedMessage ==
    /\ (pc = "cleaned" /\ ~cleaned.ok)
         => cleaned = Raised("ValueError", NotSelectMessage)
    /\ (pc = "generated" /\ response.ok /\ ~generated.ok)
         => generated = Raised("Exception", FailedPrefix \o NotSelectMessage)

C6_Witness ==
    /\ pc = "generated"
    /\ response.ok
    /\ response.value = ExampleUpdate
    /\ generated = Raised("Exception", FailedPrefix \o NotSelectMessage)

(* C7: every string generate_sql_query returns is a single-line SELECT:    *)
(* it begins with SELECT in any letter case, holds no line feed and does   *)
(* not end with a semicolon.                                               *)
C7_SingleLineSelect ==
    (pc = "generated" /\ generated.ok) =>
        /\ BeginsWithAnyCase(generated.value, select)
        /\ ~HasChar(generated.value, NL)
        /\ generated.value[Len(generated.value)] # ";"

C7_Witness ==
    /\ pc = "generated"
    /\ generated.ok
    /\ response.value = ExampleWrapped
    /\ HasChar(response.value, NL)
    /\ HasChar(response.value, ";")

----------------------------------------------------------------------------
(* Statements about the prompt                                             *)

Digits == <<"0","1","2","3","4","5","6","7","8","9">>

RECURSIVE Decimal(_)
Decimal(n) ==
    IF n < 10 THEN Digits[n + 1]
    ELSE Decimal(n \div 10) \o Digits[(n % 10) + 1]

\* how a value of the context reads in the prompt; an absent key reads None
Shown(v) ==
    IF v = None THEN "None"
    ELSE IF "int" \in DOMAIN v THEN Decimal(v.int)
    ELSE IF "bool" \in DOMAIN v THEN (IF v.bool THEN "True" ELSE "False")
    ELSE v.str

ShownKey(ctx, key) ==
    IF key \in DOMAIN ctx.dict THEN Shown(ctx.dict[key]) ELSE "None"

\* the identity-filter instructions for the id text x
IdentityInstructions(x) ==
    { Indent \o "users.user_id = " \o x,
      Indent \o "→ WHERE users.user_id = " \o x,
      Indent \o "→ submissions.user_id = " \o x }

\* texts that could stand where the id belongs: the id of any user, or a
\* generic value
IdTexts ==
    {Shown(v) : v \in ValuesOf("user_id")}
    \cup {"", "None", "<user_id>", "{user_id}", "user_id", "?"}

PromptLines == {system_prompt[i] : i \in 1..Len(system_prompt)}

HasUserId(ctx) == "dict" \in DOMAIN ctx /\ "user_id" \in DOMAIN ctx.dict

(* C8: for a user_context whose user_id is v, the prompt holds the         *)
(* identity-filter instructions with v, and no identity-filter instruction *)
(* of the prompt shows anything else; with user_id 42 and the query Show   *)
(* my submissions it holds "submissions.user_id = 42".                     *)
C8_UserIdSubstituted ==
    /\ (pc = "generated" /\ HasUserId(user_context)) =>
         /\ IdentityInstructions(ShownKey(user_context, "user_id")) \subseteq PromptLines
         /\ \A x \in IdTexts :
              IdentityInstructions(x) \cap PromptLines # {}
                  => x = ShownKey(user_context, "user_id")
    /\ ( /\ pc = "generated"
         /\ HasUserId(user_context)
         /\ user_context.dict["user_id"] = PyInt(42)
         /\ natural_language_query = "Show my submissions" ) =>
         /\ (Indent \o "→ submissions.user_id = 42") \in PromptLines
         /\ (Indent \o "users.user_id = 42") \in PromptLines

C8_Witness ==
    /\ pc = "generated"
    /\ HasUserId(user_context)
    /\ user_context.dict["user_id"] = PyInt(42)
    /\ natural_language_query = "Show my submissions"
    /\ (Indent \o "→ submissions.user_id = 42") \in PromptLines

\* the lines by which the context block is known
ContextMarks ==
    { Indent \o "CURRENT USER CONTEXT", Indent \o "CONTEXT RULES:",
      Indent \o "You MUST interpret them as referring to:" }
    \cup UNION {IdentityInstructions(x) : x \in IdTexts}

(* C9: given no user_context, the context block is the empty string and    *)
(* no identity-substitution instruction appears in the prompt.             *)
C9_NoContextEmptyBlock ==
    (pc = "generated" /\ user_context = None) =>
        /\ context_block = <<>>
        /\ ContextMarks \cap PromptLines = {}

C9_Witness ==
    /\ pc = "generated"
    /\ user_context = None
    /\ context_block = <<>>
    /\ natural_language_query \in PromptLines

\* the block shows every key of the context, an absent one as None
BlockShows(ctx) ==
    /\ (Indent \o "CURRENT USER CONTEXT") \in PromptLines
    /\ \A key \in ContextKeys :
         (Indent \o key \o ": " \o ShownKey(ctx, key)) \in PromptLines

(* C10 as stated: whenever a user_context mapping is present, whatever its *)
(* shape (also when it lacks some or all of the five keys), the CURRENT    *)
(* USER CONTEXT block is in the prompt, each absent key shown as None.     *)
C10_BlockForEveryMapping ==
    (pc = "generated" /\ "dict" \in DOMAIN user_context) => BlockShows(user_context)

(* C10 as amended: whenever the user_context is a mapping that is not      *)
(* empty, whatever its keys (also when it lacks some or all of the five    *)
(* keys), the CURRENT USER CONTEXT block is in the prompt, each absent key *)
(* shown as None; for the empty mapping there is no block.                 *)
C10_BlockForNonEmptyMapping ==
    /\ (pc = "generated" /\ "dict" \in DOMAIN user_context /\ DOMAIN user_context.dict # {})
         => BlockShows(user_context)
    /\ (pc = "generated" /\ user_context = PyDict(<<>>)) => context_block = <<>>

C10_Witness ==
    /\ pc = "generated"
    /\ "dict" \in DOMAIN user_context
    /\ DOMAIN user_context.dict = {"role"}
    /\ (Indent \o "user_id: None") \in PromptLines
    /\ (Indent \o "CURRENT USER CONTEXT") \in PromptLines

----------------------------------------------------------------------------
(* Statements about repeated calls                                         *)

SameArguments(a, b) ==
    /\ a.natural_language_query = b.natural_language_query
    /\ a.user_context = b.user_context

(* C11: prompt building is deterministic and pure: any two calls of        *)
(* generate_sql_query with the same natural_language_query and the same    *)
(* user_context build the same prompt text, whatever calls were made in    *)
(* between, and a call leaves the state of the generator as it was.        *)
C11_PromptDeterministicAndPure ==
    /\ [](\A i, j \in 1..Len(calls) :
            SameArguments(calls[i], calls[j])
                => calls[i].system_prompt = calls[j].system_prompt)
    /\ [][pc' = "generated" => sql_generator' = sql_generator]_vars

C11_Witness ==
    /\ Len(calls) = 3
    /\ SameArguments(calls[1], calls[3])
    /\ calls[1].user_context = None
    /\ "dict" \in DOMAIN calls[2].user_context
    /\ DOMAIN calls[2].user_context.dict # {}
    /\ calls[1].system_prompt = calls[3].system_prompt
    /\ calls[1].system_prompt # calls[2].system_prompt
    /\ sql_generator = Generator

----------------------------------------------------------------------------
(* Statements about POST /query                                            *)

\* the stages of request r named name, as its trace holds them
StagesNamed(r, name) == SelectSeq(trace[r], LAMBDA e : e.stage = name)

Ran(r, name) == StagesNamed(r, name) # <<>>

\* the stage returned a value / raised
Succeeded(r, name) ==
    \E i \in 1..Len(trace[r]) :
        /\ trace[r][i].stage = name
        /\ "ok" \in DOMAIN trace[r][i].result
        /\ trace[r][i].result.ok

Failed(r, name) ==
    \E i \in 1..Len(trace[r]) :
        /\ trace[r][i].stage = name
        /\ "ok" \in DOMAIN trace[r][i].result
        /\ ~trace[r][i].result.ok

\* what the stage yielded (for a stage that ran)
ResultOf(r, name) == StagesNamed(r, name)[1].result

ArgumentOf(r, name) == StagesNamed(r, name)[1].arg

Answered(r) == at[r] = "done"

\* the answer is the success response / an error response and nothing else
IsSuccess(r) ==
    /\ DOMAIN http[r] = {"status_code", "body"}
    /\ http[r].status_code = 200
    /\ http[r].body.success = TRUE

IsError(r) ==
    /\ DOMAIN http[r] = {"status_code", "detail"}
    /\ http[r].status_code # 200

(* C12: a request fully succeeds or fully fails.  Its answer has           *)
(* success=true exactly when the completion call, the sanitization and the *)
(* database execution all succeeded (with any number of rows, zero too);   *)
(* when one of them failed the answer is an error response, which holds no *)
(* result, and its message is the message of the failure: the reason of    *)
(* the failed stage, as the exception that reached the handler words it.   *)
C12_AllOrNothing ==
    \A r \in Requests : Answered(r) =>
        /\ IsSuccess(r) <=>
             /\ Succeeded(r, "generate_text")
             /\ Succeeded(r, "clean_sql_query")
             /\ Succeeded(r, "execute_query")
        /\ IsSuccess(r) \/ IsError(r)
        /\ Failed(r, "generate_text") =>
             /\ IsError(r)
             /\ http[r].detail = FailedPrefix \o ResultOf(r, "generate_text").message
        /\ Failed(r, "clean_sql_query") =>
             /\ IsError(r)
             /\ http[r].detail = FailedPrefix \o ResultOf(r, "clean_sql_query").message
        /\ Failed(r, "execute_query") =>
             /\ IsError(r)
             /\ http[r].detail = ResultOf(r, "execute_query").message
             /\ Contains(http[r].detail, ResultOf(r, "exec_immediate").message)

C12_Witness ==
    /\ Answered(1) /\ Failed(1, "execute_query") /\ IsError(1)
    /\ Answered(2) /\ IsSuccess(2) /\ http[2].body.results = <<>>

\* the names of the stages of request r in the order they ran; the call of
\* the driver is a part of the database execution
StageNames(r) ==
    LET top == SelectSeq(trace[r], LAMBDA e : e.stage # "exec_immediate")
    IN  [i \in 1..Len(top) |-> top[i].stage]

StageOrder == <<"build_prompt", "generate_text", "clean_sql_query", "execute_query">>

(* C13: within one request the stages run in the order prompt build,       *)
(* completion call, sanitization, database execution, each at most once    *)
(* (nothing is retried); the completion client is given the prompt built;  *)
(* the query executor is invoked only after clean_sql_query has succeeded, *)
(* with exactly the sanitized string, and hands the driver that string;    *)
(* after the failure of a stage no later stage runs.                       *)
C13_StagesInOrderNoRetry ==
    \A r \in Requests :
        /\ Len(StageNames(r)) <= 4
        /\ StageNames(r) = SubSeq(StageOrder, 1, Len(StageNames(r)))
        /\ Len(StagesNamed(r, "exec_immediate")) <= 1
        /\ Ran(r, "generate_text") =>
             ArgumentOf(r, "generate_text") = ResultOf(r, "build_prompt")
        /\ Ran(r, "execute_query") =>
             /\ Succeeded(r, "clean_sql_query")
             /\ ArgumentOf(r, "execute_query") = ResultOf(r, "clean_sql_query").value
             /\ ArgumentOf(r, "execute_query")
                  = ExpectedSql(CleanedFrom(ResultOf(r, "generate_text").value))
        /\ Ran(r, "exec_immediate") =>
             /\ Ran(r, "execute_query")
             /\ ArgumentOf(r, "exec_immediate") = ArgumentOf(r, "execute_query")
        /\ Failed(r, "generate_text") => ~Ran(r, "clean_sql_query")
        /\ Failed(r, "clean_sql_query") => ~Ran(r, "execute_query")
        /\ \A name \in {"generate_text", "clean_sql_query", "execute_query"} :
             Failed(r, name) => Answered(r)

C13_Witness ==
    /\ Answered(1)
    /\ StageNames(1) = StageOrder
    /\ ArgumentOf(1, "execute_query") = LineSelect1
    /\ Answered(2)
    /\ Failed(2, "clean_sql_query")
    /\ StageNames(2) = SubSeq(StageOrder, 1, 3)

\* the rows of what the driver yielded, in the order it yielded them
RowsOf(fetched) == SelectSeq(fetched, LAMBDA row : "dict" \in DOMAIN row)

(* C14: on success the answer has success=true, natural_query equal to the *)
(* request's user_query trimmed, generated_sql equal to the string the     *)
(* query executor was given, and results equal to the rows the executor    *)
(* fetched, in the order the driver returned them.                         *)
C14_SuccessResponse ==
    \A r \in Requests : (Answered(r) /\ Ran(r, "execute_query") /\ IsSuccess(r)) =>
        /\ http[r].body.success = TRUE
        /\ http[r].body.natural_query = Trimmed(request[r].user_query)
        /\ http[r].body.generated_sql = ArgumentOf(r, "execute_query")
        /\ http[r].body.results = ResultOf(r, "execute_query").value
        /\ http[r].body.results = RowsOf(ResultOf(r, "exec_immediate").value)

C14_Witness ==
    /\ Answered(1)
    /\ IsSuccess(1)
    /\ request[1].user_query = <<SP,"m","y"," ","s","k","i","l","l","s",SP>>
    /\ http[1].body.natural_query = <<"m","y"," ","s","k","i","l","l","s">>
    /\ http[1].body.generated_sql = LineSelectUsers
    /\ http[1].body.results = <<RowBo, RowAna>>

\* the request has arrived with an empty or whitespace-only user_query
IsBlank(r) ==
    /\ "user_query" \in DOMAIN request[r]
    /\ \A i \in 1..Len(request[r].user_query) : request[r].user_query[i] \in {SP, NL}

(* C16: a user_query that is empty or whitespace-only is rejected before   *)
(* the completion client or the query executor is invoked: for such a      *)
(* request no stage runs, and the answer is an error response.             *)
C16_BlankQueryRejectedFirst ==
    \A r \in Requests : IsBlank(r) =>
        /\ ~Ran(r, "generate_text")
        /\ ~Ran(r, "execute_query")
        /\ ~Ran(r, "exec_immediate")
        /\ Answered(r)
        /\ IsError(r)

C16_Witness ==
    /\ request[1] = [user_query |-> <<SP, NL>>]
    /\ Answered(1)
    /\ IsError(1)
    /\ trace[1] = <<>>
    /\ Ran(2, "generate_text")

(* C17: for an empty or whitespace-only user_query, process_query answers  *)
(* with the HTTP status 400 and the detail "Missing user query".           *)
C17_BlankQueryAnswered400 ==
    \A r \in Requests : (IsBlank(r) /\ Answered(r)) =>
        http[r] = [status_code |-> 400, detail |-> MissingUserQuery]

(* C18: in every interleaving of the requests, the natural_query and the   *)
(* generated_sql of each answer come from that request's own user_query    *)
(* and from the completion that request's own call received, whatever the  *)
(* other requests were given; and once the service is ready, no step       *)
(* reassigns or changes the handles sql_generator and db_client.           *)
C18_NothingSharedBetweenRequests ==
    /\ [](\A r \in Requests : (Answered(r) /\ IsSuccess(r)) =>
            /\ http[r].body.natural_query = Trimmed(request[r].user_query)
            /\ http[r].body.generated_sql
                 = ExpectedSql(CleanedFrom(ResultOf(r, "generate_text").value)))
    /\ [][app = "ready" =>
            (sql_generator' = sql_generator /\ db_client' = db_client)]_vars

C18_Witness ==
    /\ Answered(1) /\ IsSuccess(1)
    /\ at[2] = "exec_immediate"
    /\ request[1] # request[2]
    /\ ~IsBlank(2)
    /\ ResultOf(1, "generate_text") # ResultOf(2, "generate_text")
    /\ http[1].body.generated_sql # ArgumentOf(2, "execute_query")
    /\ http[1].body.natural_query = Trimmed(request[1].user_query)
    /\ frame[2].user_query = Trimmed(request[2].user_query)

----------------------------------------------------------------------------
(* Statements about the configuration                                      *)

\* the required variables that the environment does not set
Absent == {var \in EnvVars : environ[var] = None}

Validated == "ok" \in DOMAIN validated

(* C15: for every set of the nine required variables that the environment  *)
(* does not set, Config.validate fails with the configuration error, which *)
(* names every one of them; it succeeds only when none is absent.          *)
C15_EveryAbsentVariableReported ==
    Validated =>
        /\ validated.ok => Absent = {}
        /\ Absent # {} =>
             /\ ~validated.ok
             /\ validated.type = "ValueError"
             /\ \A var \in Absent : Contains(validated.message, NameOf(var))

----------------------------------------------------------------------------
(* Further statements about clean_sql_query                                *)

(* C19: clean_sql_query is idempotent on its own output: when it returns a *)
(* string for a completion, it returns that same string for that string.   *)
C19_Idempotent ==
    (pc = "cleaned" /\ cleaned.ok) => clean_sql_query(cleaned.value) = cleaned

\* the lines of a SELECT statement in the runs: its first line, a
\* continuation line that begins with the keyword THEN, an empty line
StatementLines == {LineSelect1, LineThen, <<>>}

IsStatement(lines) ==
    /\ lines # <<>>
    /\ lines[1] = LineSelect1
    /\ \A i \in 1..Len(lines) : lines[i] \in StatementLines

\* the lines of the statement of a completion that is fenced (the marker
\* line first, the closing fence, if any, last) or not
StatementIn(t) ==
    LET lines == LinesOf(t)
    IN  IF lines[1] # FenceSql THEN lines
        ELSE IF lines[Len(lines)] = Fence THEN SubSeq(lines, 2, Len(lines) - 1)
        ELSE Tail(lines)

\* the non-empty lines, trimmed, in order, joined by single blanks, without
\* semicolons
AllLinesJoined(lines) ==
    LET kept == SelectSeq(lines, LAMBDA l : Trimmed(l) # <<>>)
        joined == Join([i \in 1..Len(kept) |-> Trimmed(kept[i])], <<SP>>)
    IN  Trimmed(SelectSeq(joined, LAMBDA c : c # ";"))

(* C20: no line of a multi-line SELECT statement is lost: for a completion *)
(* that is only a statement (fenced or not) whose first line begins with   *)
(* SELECT, clean_sql_query returns all its non-empty lines, trimmed, in    *)
(* order, joined by single blanks, also when a continuation line begins    *)
(* with THEN.                                                              *)
C20_NoLineLost ==
    (pc = "cleaned" /\ IsStatement(StatementIn(response.value)))
        => cleaned = Returned(AllLinesJoined(StatementIn(response.value)))

----------------------------------------------------------------------------
(* Statements about the startup                                            *)

\* startup_event has run
Started == "ok" \in DOMAIN startup

(* C21: the startup validators agree: in every environment in which        *)
(* Config.validate() succeeds, the startup does not fail in the            *)
(* constructor of SQLQueryGenerator or of DB2Client for a missing          *)
(* credential or configuration value.                                      *)
C21_ValidatorsAgree ==
    (Validated /\ validated.ok /\ Started) =>
        \/ startup.ok
        \/ ~(startup.type = "ValueError" /\ startup.message \in {MissingWatsonx, PleaseSet})

----------------------------------------------------------------------------
(* Statements about the DB2Client                                          *)

\* The calls of the client before the i-th in which connect() returned
ConnectedBefore(i) ==
    \E j \in 1..(i - 1) :
        client_calls[j].op = "connect" /\ client_calls[j].outcome.ok

(* C22: over any sequence of connect, execute_query, execute_non_query    *)
(* and close calls, a statement is handed to the driver only while the     *)
(* connection is open: the driver is never called to execute or to close   *)
(* on a connection that is closed; execute_query before a successful       *)
(* connect raises ConnectionError without a call of the driver; and while  *)
(* no connect has succeeded the client holds no connection.                *)
C22_DriverOnlyWhileOpen ==
    /\ \A i \in DOMAIN ibm_db.calls :
         ibm_db.calls[i].op \in {"exec_immediate", "close"} =>
             ibm_db.calls[i].state = "open"
    /\ \A i \in DOMAIN client_calls :
         (client_calls[i].op = "execute_query" /\ ~ConnectedBefore(i)) =>
             /\ ~client_calls[i].outcome.ok
             /\ client_calls[i].outcome.type = "ConnectionError"
             /\ client_calls[i].driver_calls = 0
    /\ ~ConnectedBefore(Len(client_calls) + 1) => db_client.conn = None
----------------------------------------------------------------------------
(* Statements about the prompts of the service                             *)

PromptLinesOf(prompt) == {prompt[i] : i \in 1..Len(prompt)}

\* the lines that tell the model who the user is: the heading of the
\* context, the user_id field and the identity-filter instructions, for any
\* text where the id belongs
IdentityLines ==
    {Indent \o "CURRENT USER CONTEXT", Indent \o "The logged-in user information:"}
    \cup {Indent \o "user_id: " \o x : x \in IdTexts}
    \cup UNION {IdentityInstructions(x) : x \in IdTexts}

(* C23: every prompt sent to the completion engine for a POST /query       *)
(* request was built with an empty context block, and no line of it tells  *)
(* the identity of a user.                                                 *)
C23_NoIdentityInServicePrompts ==
    \A r \in Requests :
        Ran(r, "generate_text") =>
            /\ frame[r].context_block = <<>>
            /\ PromptLinesOf(ArgumentOf(r, "generate_text")) \cap IdentityLines = {}

\* a request that asks about "my skills" has had its prompt sent, with the
\* query in it and nothing about who is asking
C23_Witness ==
    \E r \in Requests :
        /\ Ran(r, "generate_text")
        /\ request[r].user_query = <<SP,"m","y"," ","s","k","i","l","l","s",SP>>
        /\ "my skills" \in PromptLinesOf(ArgumentOf(r, "generate_text"))
        /\ "Natural Language Query:" \in PromptLinesOf(ArgumentOf(r, "generate_text"))
        /\ frame[r].context_block = <<>>
====
